---- MODULE Spec2Model ----
(***************************************************************************)
(* A model of the git-me-ai front end: the generator page                  *)
(* (ReadmeGeneratorWithPreview), the live preview editor it mounts         *)
(* (ReadmeLivePreview), the split-view resize handle, the API service's    *)
(* credential handling and the clipboard utility.                          *)
(*                                                                         *)
(* Texts are sequences of one-character strings.  A nullable value is a    *)
(* sequence of length 0 (null) or 1 (the value).                           *)
(***************************************************************************)
EXTENDS Integers, Sequences, FiniteSets, TLC

VARIABLES
    \* ---- page state (ReadmeGeneratorWithPreview) ----
    user,                  \* User | null
    readmeData,            \* ReadmeResponse | null (its repo_analysis.name)
    currentReadmeContent,  \* the text the page holds for commit, copy, download
    loading, generating,   \* busy flags
    error,                 \* error banner text | null
    userReq, genReq,       \* the two requests of loadInitialData
    allState,              \* state of the Promise.all of loadInitialData
    regens,                \* regeneration requests in flight, oldest first
    failLog,               \* history: the load requests that failed, in order
    editedInFlight,        \* history: an edit was made while a regeneration was in flight
    \* ---- editor state (ReadmeLivePreview) ----
    activeTab, editableContent,
    caret,                 \* caret set by the last setSelectionRange | null
    timers,                \* pending setTimeout callbacks of insertTemplate
    cbCalls,               \* history: onContentChange calls made by the last step
    applied,               \* history: the regeneration response shown, if any
    \* ---- split view ----
    previewWidth, listeners,
    lastMoveX,             \* history: clientX of the last mousemove delivered | null
    \* ---- API service ----
    token,                 \* ApiService.token
    storedToken,           \* localStorage 'github_token'
    location,              \* the path shown
    apiReqs,               \* the API requests in flight (their kinds)
    lastStatus,            \* history: the response the last step handled | null
    rootAuth,              \* isAuthenticated() when App rendered its route table
    thrown,                \* history: the Error the service raised to its caller
                           \* in the last step | null
    \* ---- clipboard ----
    copySuccess,           \* the 'copied to clipboard' snackbar is open
    clipboard,             \* the system clipboard's text | null
    copyOps,               \* navigator.clipboard.writeText calls pending, oldest first
    tempFields,            \* temporary textareas of the fallback left in the document
    shownFor,              \* history: how the copy ended that last opened the snackbar
    \* ---- presentation of the editor; view mode of the ReadmeGenerator page ----
    fontSize, theme,
    viewMode,              \* "traditional" | "live-preview"
    prevMount,             \* history: had the editor's previous mount left every default? | null
    \* ---- downloads ----
    files,                 \* the files the browser has saved, oldest first
    objectUrls,            \* object URLs created and not revoked
    linkAttached,          \* a synthetic link is in the document
    domLog,                \* history: the steps of the last download, in order
    \* ---- backend wake-up (BackendWakeupService) ----
    isWakingUp, isWarmedUp,
    wakeCalls,             \* the calls of wakeUpBackend made, oldest first
    elapsed,               \* ms since the pending probe started
    probe,                 \* the probe request: "none" | "pending"
    \* ---- commit to the repository ----
    committing,            \* busy flag of the commit
    commitSuccess,         \* the 'successfully committed' snackbar is open
    showCommitDialog,
    commits,               \* commit requests in flight (the document each carries)
    sent,                  \* history: the commit requests issued (repository, document)
    \* ---- the editor's own clipboard writes ----
    editorCopies,          \* navigator.clipboard.writeText calls of the editor pending
    lastLocal,             \* history: how the editor's last copy, or its last
                           \* insertTemplate without a textarea, ended | null
    \* ---- the route of the generator page ----
    routeRepo,             \* the repository the route parameter names
    loads,                 \* runs of loadInitialData in flight (their repository), oldest first
    \* ---- the route parameter that names the repository ----
    full_name,             \* repo.full_name of the repository chosen on the dashboard
    segment,               \* the route parameter :repoName | null
    fullName,              \* the full name the generator page decodes | null
    repoDisplayName,       \* the display name it takes from it | null
    \* ---- props of the editor ----
    isEditable,            \* the isEditable prop (default true; both pages pass true)
    \* ---- what the editor renders ----
    previewPane            \* the preview pane on screen | null

pageVars   == <<user, readmeData, currentReadmeContent, loading, generating,
                error, userReq, genReq, allState, regens, failLog,
                editedInFlight>>
editorVars == <<activeTab, editableContent, caret, timers, cbCalls, applied>>
layoutVars == <<previewWidth, listeners, lastMoveX>>
authVars   == <<token, storedToken, location, apiReqs, lastStatus, rootAuth,
                thrown>>
copyVars   == <<copySuccess, clipboard, copyOps, tempFields, shownFor>>
viewVars   == <<fontSize, theme, viewMode, prevMount>>
fileVars   == <<files, objectUrls, linkAttached, domLog>>
wakeVars   == <<isWakingUp, isWarmedUp, wakeCalls, elapsed, probe>>
commitVars == <<committing, commitSuccess, showCommitDialog, commits, sent>>
localVars  == <<editorCopies, lastLocal>>
propVars   == <<isEditable>>
routeVars  == <<routeRepo, loads>>
nameVars   == <<full_name, segment, fullName, repoDisplayName>>
moreVars   == <<commitVars, localVars, propVars, routeVars, nameVars>>
restVars   == <<viewVars, fileVars, wakeVars, moreVars>>
vars       == <<pageVars, editorVars, layoutVars, authVars, copyVars, restVars,
                previewPane>>

----------------------------------------------------------------------------
(* Bounds *)
MaxTyped    == 1   \* longest text a typed edit produces
MaxListeners == 2  \* drag listener pairs attached at once
MaxCopies   == 1   \* clipboard writes pending at once; fallback fields left behind
MaxLen      == MaxTyped + 1   \* longest buffer a template insertion may produce
MaxTimers   == 1   \* pending caret-restore timers
MaxRegens   == 2   \* regeneration requests in flight (handler level)
MaxFiles    == 2   \* files downloaded
MaxWakeCalls == 3  \* calls of wakeUpBackend
MaxCommits  == 2   \* commit requests issued
MaxLoads    == 2   \* runs of loadInitialData in flight
MaxHops     == 4   \* redirects followed from one path
MaxNameLen  == 3   \* characters in an owner's and in a repository's name
ProbeTicks  == 3   \* clock steps within the probe's timeout

(* Program constants *)
DefaultPreviewWidth    == 50     \* useState(50)
MinPreviewWidth        == 25     \* Math.max(25, ...)
MaxPreviewWidth        == 70     \* Math.min(70, ...)
FallbackContainerWidth == 1200   \* offsetWidth || 1200
Unauthorized           == 401    \* error.response?.status === 401
DefaultFontSize        == 14     \* useState(14)
ProbeTimeoutMs         == 30000  \* setTimeout(() => controller.abort(), 30000)

(* Values *)
Null      == <<>>
Some(x)   == <<x>>
Chars     == {"a", "b"}
RECURSIVE TextsUpTo(_)
TextsUpTo(n) == IF n = 0 THEN {<<>>}
                ELSE LET S == TextsUpTo(n - 1)
                     IN  S \cup {Append(t, c) : t \in {x \in S : Len(x) = n - 1}, c \in Chars}
TypedTexts  == TextsUpTo(MaxTyped)
Generated   == {<<"g">>, <<"g", "h", "g">>}   \* texts the generation service returns
Users       == {"octocat"}
RepoName    == "repo"                         \* repo_analysis.name of the route's repository

Min(a, b) == IF a < b THEN a ELSE b
Max(a, b) == IF a > b THEN a ELSE b

----------------------------------------------------------------------------
(* Pure helpers *)

\* String.prototype.substring(a, b): both indices are clamped to [0, length]
\* and swapped when a > b; the result holds the characters a .. b-1.
substring(str, a, b) ==
    LET ca == Min(Max(a, 0), Len(str))
        cb == Min(Max(b, 0), Len(str))
    IN  SubSeq(str, Min(ca, cb) + 1, Max(ca, cb))

\* A mutant of InsertedContent: the selected text is kept after the template.
InsertedContentKeepSelection(content, start, end, template) ==
    substring(content, 0, start) \o template \o substring(content, start, Len(content))

\* newContent of insertTemplate
InsertedContent(content, start, end, template) ==
    substring(content, 0, start) \o template \o substring(content, end, Len(content))

\* The position the deferred callback passes to setSelectionRange
RestorePosition(start, template) == start + Len(template)

\* HTMLTextAreaElement.setSelectionRange(p, p): p is clamped to the length of
\* the element's value.
setSelectionRange(p, value) == Min(p, Len(value))

\* A mutant of ReinitEffect: the effect never runs again after the mount.
ReinitEffectOnce(buffer, oldProp, newProp) == buffer

\* useEffect(() => setEditableContent(readmeContent), [readmeContent]): the
\* effect runs when the prop differs from the one of the previous render.
ReinitEffect(buffer, oldProp, newProp) ==
    IF newProp # oldProp THEN newProp ELSE buffer

\* the requests left in flight when request i has settled
WithoutRequest(rs, i) == SubSeq(rs, 1, i - 1) \o SubSeq(rs, i + 1, Len(rs))

\* The templates of the Quick Insert bar (their texts abstracted).
quickTemplates == {<<"T">>, <<"T", "U">>}

\* The messages the API service throws.
MsgUser     == "Failed to fetch user information"
MsgGenerate == "Failed to generate README"
MsgOf(who)  == IF who = "user" THEN MsgUser ELSE MsgGenerate
MsgCommit   == "Failed to commit README to repository"
MsgLogin    == "Failed to authenticate with GitHub"
MsgRepos    == "Failed to fetch repositories"

----------------------------------------------------------------------------
(* The generator page and its editor *)

NoReq     == [st |-> "none", data |-> Null]
InFlight  == [st |-> "inflight", data |-> Null]
Failed    == [st |-> "failed", data |-> Null]
Ok(d)     == [st |-> "ok", data |-> Some(d)]

\* The editor is rendered: {readmeData && <ReadmeLivePreview .../>}, below the
\* page's early return while loading.
EditorMounted == ~loading /\ readmeData # Null /\ viewMode = "live-preview"

\* A mutant of PreviewPane: the progress indicator never replaces the output.
PreviewPaneNoProgress(mounted, tab, isGenerating, content) ==
    IF ~mounted \/ tab = 0 THEN Null
    ELSE Some([kind |-> "rendered", source |-> Some(content)])

\* The preview pane of the Preview tab (1) and of the Split View tab (2):
\* isGenerating ? <CircularProgress/> : <ReactMarkdown>{editableContent}</ReactMarkdown>
PreviewPane(mounted, tab, isGenerating, content) ==
    IF ~mounted \/ tab = 0 THEN Null
    ELSE IF isGenerating THEN Some([kind |-> "progress", source |-> Null])
    ELSE Some([kind |-> "rendered", source |-> Some(content)])

\* Every step ends with React rendering the editor from the new state.
Render ==
    previewPane' = PreviewPane(EditorMounted', activeTab', generating', editableContent')

InitRender ==
    previewPane = PreviewPane(EditorMounted, activeTab, generating, editableContent)

\* A mutant of SurfaceMounted: the textarea is rendered whatever isEditable.
SurfaceMountedAlways == EditorMounted /\ activeTab \in {0, 2}

\* A textarea is rendered in the Editor tab and in the Split View tab, when
\* isEditable ({isEditable ? <textarea/> : <pre/>}).
SurfaceMounted == EditorMounted /\ isEditable /\ activeTab \in {0, 2}

\* {isEditable && activeTab !== 1 && (<Quick Insert bar/>)}
TemplateBarShown == EditorMounted /\ isEditable /\ activeTab # 1

\* a request in flight; overtaken: a later request has been answered before it
NewRegen == [overtaken |-> FALSE]
\* the requests left in flight when request i has been answered
Answered(rs, i) ==
    [j \in 1..(Len(rs) - 1) |->
        IF j < i THEN [rs[j] EXCEPT !.overtaken = TRUE] ELSE rs[j + 1]]

InitPage ==
    /\ user = Null /\ readmeData = Null /\ currentReadmeContent = <<>>
    /\ loading = TRUE /\ generating = FALSE /\ error = Null
    /\ userReq = NoReq /\ genReq = NoReq /\ allState = "none"
    /\ regens = <<>> /\ failLog = <<>> /\ editedInFlight = FALSE

InitEditor ==
    /\ activeTab = 0 /\ editableContent = <<>> /\ caret = Null
    /\ timers = <<>> /\ cbCalls = <<>> /\ applied = Null

InitLayoutIdle == previewWidth = DefaultPreviewWidth /\ listeners = <<>>
                  /\ lastMoveX = Null
InitAuthIdle   == token = Null /\ storedToken = Null /\ location = "/generate"
                  /\ apiReqs = {} /\ lastStatus = Null /\ rootAuth = FALSE
                  /\ thrown = Null
InitCopyIdle   == copySuccess = FALSE /\ clipboard = Null /\ copyOps = <<>>
                  /\ tempFields = 0 /\ shownFor = "none"
\* The editor's presentation; the ReadmeGeneratorWithPreview page has no view
\* mode and always renders the editor.
InitViewIdle   == fontSize = DefaultFontSize /\ theme = "light"
                  /\ viewMode = "live-preview" /\ prevMount = Null
InitFileIdle   == files = <<>> /\ objectUrls = {} /\ linkAttached = FALSE
                  /\ domLog = <<>>
InitWakeIdle   == isWakingUp = FALSE /\ isWarmedUp = FALSE /\ wakeCalls = <<>>
                  /\ elapsed = 0 /\ probe = "none"
InitCommitIdle == committing = FALSE /\ commitSuccess = FALSE
                  /\ showCommitDialog = FALSE /\ commits = <<>> /\ sent = <<>>
InitLocalIdle  == editorCopies = <<>> /\ lastLocal = Null
InitRouteIdle  == routeRepo = RepoName /\ loads = <<>>
InitNameIdle   == full_name = <<"o", "/", "r">> /\ segment = Null
                  /\ fullName = Null /\ repoDisplayName = Null
InitMoreIdle   == InitCommitIdle /\ InitLocalIdle /\ isEditable = TRUE
                  /\ InitRouteIdle /\ InitNameIdle
InitRestIdle   == InitViewIdle /\ InitFileIdle /\ InitWakeIdle /\ InitMoreIdle

\* useEffect of the page: both requests are issued inside one Promise.all.
loadInitialData ==
    /\ allState = "none"
    /\ loading' = TRUE /\ error' = Null
    /\ userReq' = InFlight /\ genReq' = InFlight
    /\ allState' = "pending"
    /\ cbCalls' = <<>>
    /\ UNCHANGED <<user, readmeData, currentReadmeContent, generating, regens,
                   failLog, editedInFlight>>
    /\ UNCHANGED <<activeTab, editableContent, caret, timers, applied>>
    /\ UNCHANGED <<layoutVars, authVars, copyVars, restVars>>
    /\ Render

\* Promise.all fulfils: the three setters, then finally { setLoading(false) };
\* the editor mounts with useState(readmeContent).
LoadFulfilled(u, text) ==
    /\ allState' = "fulfilled"
    /\ user' = Some(u) /\ readmeData' = Some(RepoName)
    /\ currentReadmeContent' = text
    /\ loading' = FALSE
    /\ editableContent' = text /\ activeTab' = 0
    /\ UNCHANGED <<error, failLog>>

\* A mutant of LoadRejected: no finally, the page stays in its loading state.
LoadRejectedStuck(who, msg) ==
    /\ allState' = "rejected"
    /\ error' = Some(msg)
    /\ failLog' = Append(failLog, who)
    /\ UNCHANGED <<user, readmeData, currentReadmeContent, editableContent,
                   activeTab, loading>>

\* Promise.all rejects with the first rejection: catch { setError(err.message) }
\* finally { setLoading(false) }.
LoadRejected(who, msg) ==
    /\ allState' = "rejected"
    /\ error' = Some(msg)
    /\ loading' = FALSE
    /\ failLog' = Append(failLog, who)
    /\ UNCHANGED <<user, readmeData, currentReadmeContent, editableContent, activeTab>>

\* A mutant of LoadIgnored: a later failure replaces the error shown.
LoadIgnoredOverwrites(who, failed) ==
    /\ failLog' = IF failed THEN Append(failLog, who) ELSE failLog
    /\ error' = IF failed THEN Some(MsgOf(who)) ELSE error
    /\ UNCHANGED <<allState, user, readmeData, currentReadmeContent, loading,
                   editableContent, activeTab>>

\* A response that arrives after Promise.all has settled, or a first success,
\* changes nothing on the page.
LoadIgnored(who, failed) ==
    /\ failLog' = IF failed THEN Append(failLog, who) ELSE failLog
    /\ UNCHANGED <<allState, user, readmeData, currentReadmeContent, loading,
                   error, editableContent, activeTab>>

LoadFrame ==
    /\ cbCalls' = <<>>
    /\ UNCHANGED <<generating, regens, editedInFlight, caret, timers, applied>>
    /\ UNCHANGED <<layoutVars, authVars, copyVars, restVars>>
    /\ Render

\* The response to getCurrentUser()
UserResponse ==
    /\ userReq.st = "inflight"
    /\ \/ \E u \in Users :
            /\ userReq' = Ok(u)
            /\ IF allState = "pending" /\ genReq.st = "ok"
               THEN LoadFulfilled(u, genReq.data[1])
               ELSE LoadIgnored("user", FALSE)
       \/ /\ userReq' = Failed
          /\ IF allState = "pending"
             THEN LoadRejected("user", MsgOf("user"))
             ELSE LoadIgnored("user", TRUE)
    /\ UNCHANGED genReq
    /\ LoadFrame

\* The response to generateReadme() of the page load
GenerateResponse ==
    /\ genReq.st = "inflight"
    /\ \/ \E text \in Generated :
            /\ genReq' = Ok(text)
            /\ IF allState = "pending" /\ userReq.st = "ok"
               THEN LoadFulfilled(userReq.data[1], text)
               ELSE LoadIgnored("generate", FALSE)
       \/ /\ genReq' = Failed
          /\ IF allState = "pending"
             THEN LoadRejected("generate", MsgOf("generate"))
             ELSE LoadIgnored("generate", TRUE)
    /\ UNCHANGED userReq
    /\ LoadFrame

\* handleRegenerate of the page: no guard but the route parameter.
handleRegenerate ==
    /\ EditorMounted
    /\ Len(regens) < MaxRegens
    /\ generating' = TRUE /\ error' = Null
    /\ regens' = Append(regens, NewRegen)
    /\ editedInFlight' = (regens # <<>> /\ editedInFlight)
    /\ cbCalls' = <<>>
    /\ UNCHANGED <<user, readmeData, currentReadmeContent, loading, userReq,
                   genReq, allState, failLog>>
    /\ UNCHANGED <<activeTab, editableContent, caret, timers, applied>>
    /\ UNCHANGED <<layoutVars, authVars, copyVars, restVars>>
    /\ Render

\* A mutant of RegenerateEnabled: the controls are never disabled.
RegenerateEnabledAlways == TRUE

\* Both Regenerate controls carry disabled={generating}.
RegenerateEnabled == ~generating

ClickRegenerate == RegenerateEnabled /\ handleRegenerate

\* A mutant of RegeneratedContent: the response is not stored.
RegeneratedContentDropped(old, response) == old

\* The text handleRegenerate stores on success
RegeneratedContent(old, response) == response

\* The response to the generateReadme() of regeneration request i
RegenResponse ==
    \E i \in DOMAIN regens :
        /\ regens' = Answered(regens, i)
        /\ generating' = FALSE
        /\ \/ \E text \in Generated :
                LET content == RegeneratedContent(currentReadmeContent, text) IN
                /\ readmeData' = Some(RepoName)
                /\ currentReadmeContent' = content
                /\ editableContent' =
                       ReinitEffect(editableContent, currentReadmeContent, content)
                /\ caret' = IF editableContent' # editableContent THEN Null ELSE caret
                /\ applied' = Some([text |-> text, edited |-> editedInFlight,
                                    overtaken |-> regens[i].overtaken])
                /\ UNCHANGED error
           \/ /\ error' = Some(MsgGenerate)
              /\ UNCHANGED <<readmeData, currentReadmeContent, editableContent,
                             caret, applied>>
        /\ cbCalls' = <<>>
        /\ UNCHANGED <<user, loading, userReq, genReq, allState, failLog,
                       editedInFlight>>
        /\ UNCHANGED <<activeTab, timers>>
        /\ UNCHANGED <<layoutVars, authVars, copyVars, restVars>>
        /\ Render

\* A mutant of onContentChange: the page drops the reported content.
onContentChangeIgnored(newContent) == currentReadmeContent' = currentReadmeContent

\* handleContentChange of the page, the editor's onContentChange
\* (the optional draft cache in localStorage is not part of the state).
onContentChange(newContent) == currentReadmeContent' = newContent

\* A mutant of ChangeCallbackArg: the callback gets the previous content.
ChangeCallbackArgStale(old, new) == old

\* The argument the editor passes to onContentChange
ChangeCallbackArg(old, new) == new

\* The callbacks an edit makes: if (onContentChange) onContentChange(newContent)
NotifyChange(old, new) ==
    /\ cbCalls' = <<ChangeCallbackArg(old, new)>>
    /\ onContentChange(ChangeCallbackArg(old, new))

EditFrame ==
    /\ applied' = Null
    /\ editedInFlight' = (regens # <<>> \/ editedInFlight)
    /\ UNCHANGED <<user, readmeData, loading, generating, error, userReq,
                   genReq, allState, regens, failLog>>
    /\ UNCHANGED <<layoutVars, authVars, copyVars, restVars>>
    /\ Render

\* handleContentChange of the editor: the user changes the textarea's value.
ContentChangeTo(newContent) ==
    /\ SurfaceMounted
    /\ newContent # editableContent
    /\ NotifyChange(editableContent, newContent)
    /\ editableContent' =
           ReinitEffect(newContent, currentReadmeContent, currentReadmeContent')
    /\ caret' = Null
    /\ UNCHANGED <<activeTab, timers>>
    /\ EditFrame

handleContentChange == \E newContent \in TypedTexts : ContentChangeTo(newContent)

\* insertTemplate(template) with the textarea's selection at start..end
insertTemplateAt(template, start, end) ==
    LET newContent == InsertedContent(editableContent, start, end, template) IN
    /\ SurfaceMounted
    /\ Len(newContent) <= MaxLen
    /\ Len(timers) < MaxTimers
    /\ NotifyChange(editableContent, newContent)
    /\ editableContent' =
           ReinitEffect(newContent, currentReadmeContent, currentReadmeContent')
    /\ timers' = Append(timers, [start |-> start, template |-> template,
                                 detached |-> FALSE])
    /\ caret' = Null
    /\ UNCHANGED activeTab
    /\ EditFrame

\* A click in the Quick Insert bar: the selection is read from the textarea.
insertTemplate ==
    \E template \in quickTemplates :
    \E start \in 0..Len(editableContent) :
    \E end \in start..Len(editableContent) :
        insertTemplateAt(template, start, end)

\* The setTimeout(..., 0) callback of insertTemplate, on the textarea it
\* captured: textarea.focus(); textarea.setSelectionRange(p, p).
RestoreCaret ==
    /\ timers # <<>>
    /\ LET t == Head(timers) IN
        caret' = IF t.detached THEN caret
                 ELSE Some(setSelectionRange(RestorePosition(t.start, t.template),
                                             editableContent))
    /\ timers' = Tail(timers)
    /\ cbCalls' = <<>>
    /\ UNCHANGED <<activeTab, editableContent, applied>>
    /\ UNCHANGED <<pageVars, layoutVars, authVars, copyVars, restVars>>
    /\ Render

\* A mutant of TabChangeContent: leaving a tab clears the buffer.
TabChangeContentCleared(content, newValue) == IF newValue = 0 THEN content ELSE <<>>

\* The buffer after handleTabChange
TabChangeContent(content, newValue) == content

\* The value of the textarea a tab renders (none in the Preview tab)
EditorText(tab, content) == IF tab \in {0, 2} THEN Some(content) ELSE Null

\* handleTabChange: Tabs calls onChange with the index of another tab; the
\* panel of the tab left is unmounted, and its textarea with it.
handleTabChange ==
    \E newValue \in {0, 1, 2} \ {activeTab} :
        /\ EditorMounted
        /\ activeTab' = newValue
        /\ editableContent' = TabChangeContent(editableContent, newValue)
        /\ timers' = [i \in DOMAIN timers |-> [timers[i] EXCEPT !.detached = TRUE]]
        /\ caret' = Null
        /\ cbCalls' = <<>>
        /\ UNCHANGED applied
        /\ UNCHANGED <<pageVars, layoutVars, authVars, copyVars, restVars>>
        /\ Render

Init == /\ InitPage /\ InitEditor /\ InitLayoutIdle /\ InitAuthIdle /\ InitCopyIdle
        /\ InitRestIdle /\ InitRender

Next ==
    \/ loadInitialData
    \/ UserResponse
    \/ GenerateResponse
    \/ ClickRegenerate
    \/ RegenResponse
    \/ handleContentChange
    \/ insertTemplate
    \/ RestoreCaret
    \/ handleTabChange

Spec == Init /\ [][Next]_vars

\* The page with handleRegenerate invoked whatever the state of its controls
\* (what its callers may do; the controls themselves are in Spec).
NextHandlers ==
    \/ loadInitialData
    \/ UserResponse
    \/ GenerateResponse
    \/ handleRegenerate
    \/ RegenResponse
    \/ handleContentChange

SpecHandlers == Init /\ [][NextHandlers]_vars

----------------------------------------------------------------------------
(* The split view's resize handle *)

\* The page after a successful load of `text`, its editor mounted (a state
\* Spec reaches by loadInitialData, UserResponse and GenerateResponse).
LoadedRepo(u, text, name) ==
    /\ user = Some(u) /\ readmeData = Some(name)
    /\ currentReadmeContent = text
    /\ loading = FALSE /\ generating = FALSE /\ error = Null
    /\ userReq = Ok(u) /\ genReq = Ok(text) /\ allState = "fulfilled"
    /\ regens = <<>> /\ failLog = <<>> /\ editedInFlight = FALSE
    /\ activeTab = 0 /\ editableContent = text /\ caret = Null
    /\ timers = <<>> /\ cbCalls = <<>> /\ applied = Null

Loaded(u, text) == LoadedRepo(u, text, RepoName)

\* Pointer positions (clientX) and widths of the tab panel (offsetWidth; 0 also
\* stands for a panel that is not found).  Their differences are multiples of
\* 48, so that deltaX / containerWidth * 100 is a whole number of percent.
PointerXs    == {0, 240, 9600}
OffsetWidths == {0, 480}

\* offsetWidth || 1200
ContainerWidth(offsetWidth) ==
    IF offsetWidth = 0 THEN FallbackContainerWidth ELSE offsetWidth

\* A mutant of NewWidth: the lower clamp is missing.
NewWidthNoFloor(l, clientX) ==
    Min(MaxPreviewWidth,
        l.startWidth + ((clientX - l.startX) * 100) \div l.containerWidth)

\* A mutant of NewWidth: the displacement is added to the current width.
NewWidthFromCurrent(l, clientX) ==
    Min(MaxPreviewWidth,
        Max(MinPreviewWidth,
            previewWidth + ((clientX - l.startX) * 100) \div l.containerWidth))

\* handleMouseMove of one listener pair: the width it passes to setPreviewWidth
NewWidth(l, clientX) ==
    LET deltaX       == clientX - l.startX
        deltaPercent == (deltaX * 100) \div l.containerWidth
    IN  Min(MaxPreviewWidth, Max(MinPreviewWidth, l.startWidth + deltaPercent))

\* onMouseDown of the resize handle, rendered in the Split View tab: a new
\* pair of document listeners closes over the press.  A press can follow a
\* press when the release was not delivered to the document.
Press(clientX, offsetWidth) ==
    /\ EditorMounted /\ activeTab = 2
    /\ Len(listeners) < MaxListeners
    /\ listeners' = Append(listeners,
           [startX |-> clientX, startWidth |-> previewWidth,
            containerWidth |-> ContainerWidth(offsetWidth), live |-> TRUE])
    /\ UNCHANGED <<previewWidth, lastMoveX>>
    /\ cbCalls' = <<>>
    /\ UNCHANGED <<activeTab, editableContent, caret, timers, applied>>
    /\ UNCHANGED <<pageVars, authVars, copyVars, restVars>>
    /\ Render

onMouseDown ==
    \E clientX \in PointerXs, offsetWidth \in OffsetWidths :
        Press(clientX, offsetWidth)

\* A mutant of LiveListeners: the setPreviewWidth of an unmounted editor sets
\* the state of the mounted one.
LiveListenersAll(ls) == ls

\* The pairs whose setPreviewWidth belongs to the mounted editor (live is
\* FALSE for a pair attached by an editor that has been unmounted since).
LiveListeners(ls) == SelectSeq(ls, LAMBDA l : l.live)

\* A mousemove on the document: every attached handleMouseMove runs, in the
\* order of attachment, and the last setPreviewWidth is the one rendered.
Move(clientX) ==
    /\ previewWidth' = IF LiveListeners(listeners) = <<>> THEN previewWidth
                       ELSE NewWidth(LiveListeners(listeners)[Len(LiveListeners(listeners))],
                                     clientX)
    /\ lastMoveX' = Some(clientX)
    /\ UNCHANGED listeners
    /\ cbCalls' = <<>>
    /\ UNCHANGED <<activeTab, editableContent, caret, timers, applied>>
    /\ UNCHANGED <<pageVars, authVars, copyVars, restVars>>
    /\ Render

MouseMove == \E clientX \in PointerXs : Move(clientX)

\* A mutant of ListenersAfterMouseUp: only the pair attached last is removed.
ListenersAfterMouseUpLastOnly(ls) ==
    IF ls = <<>> THEN <<>> ELSE SubSeq(ls, 1, Len(ls) - 1)

\* The pairs left after a mouseup: the document calls every attached
\* handleMouseUp, and each removes its own handleMouseMove and itself.
RECURSIVE ListenersAfterMouseUp(_)
ListenersAfterMouseUp(ls) ==
    IF ls = <<>> THEN <<>> ELSE ListenersAfterMouseUp(Tail(ls))

\* A mouseup on the document: every attached handleMouseUp removes its pair.
MouseUp ==
    /\ listeners' = ListenersAfterMouseUp(listeners)
    /\ UNCHANGED <<previewWidth, lastMoveX>>
    /\ cbCalls' = <<>>
    /\ UNCHANGED <<activeTab, editableContent, caret, timers, applied>>
    /\ UNCHANGED <<pageVars, authVars, copyVars, restVars>>
    /\ Render

InitLayout ==
    /\ \E u \in Users, text \in Generated : Loaded(u, text)
    /\ InitLayoutIdle /\ InitAuthIdle /\ InitCopyIdle /\ InitRestIdle /\ InitRender

NextLayout ==
    \/ handleTabChange
    \/ onMouseDown
    \/ MouseMove
    \/ MouseUp

SpecLayout == InitLayout /\ [][NextLayout]_vars

\* C6: from the initial 50%, whatever the presses, pointer moves and releases,
\* the editor pane's percentage stays within [25, 70].
C6_PaneWithinRange ==
    MinPreviewWidth <= previewWidth /\ previewWidth <= MaxPreviewWidth

\* A drag far to the left has been clamped at the lower bound.
C6_Witness ==
    /\ previewWidth = MinPreviewWidth
    /\ listeners # <<>>
    /\ listeners[Len(listeners)].startWidth = MaxPreviewWidth

\* C12: no drag listener is attached before the first press; each press of
\* the divider attaches one move/up pair; after a release none is attached,
\* also when presses followed one another without a release; no other step
\* attaches or removes one.
C12_ListenersOnlyDuringDrag ==
    /\ listeners = <<>>
    /\ [][/\ onMouseDown => Len(listeners') = Len(listeners) + 1
          /\ MouseUp => listeners' = <<>>
          /\ (~onMouseDown /\ ~MouseUp) => listeners' = listeners]_vars

\* clamp(p, 25, 70)
ClampPercent(p) ==
    IF p < MinPreviewWidth THEN MinPreviewWidth
    ELSE IF p > MaxPreviewWidth THEN MaxPreviewWidth ELSE p

\* C18: after a pointer move to X during a drag, the pane's percentage is
\* clamp(startPercent + (X - startX) / containerWidth * 100, 25, 70), with
\* startX, startPercent and containerWidth as captured at the (latest) press,
\* whatever the percentage was before the move.
C18_WidthFromPressAndPointer ==
    [][(MouseMove /\ LiveListeners(listeners) # <<>>) =>
          LET press == LiveListeners(listeners)[Len(LiveListeners(listeners))]
              X     == lastMoveX'[1]
          IN  previewWidth' =
                  ClampPercent(press.startWidth
                               + ((X - press.startX) * 100) \div press.containerWidth)]_vars

\* A drag that started at a percentage other than the default and the bounds
\* has brought the pointer back to the press position: the pane is at the
\* percentage it had at the press.
C18_Witness ==
    /\ listeners # <<>>
    /\ lastMoveX = Some(listeners[Len(listeners)].startX)
    /\ previewWidth = listeners[Len(listeners)].startWidth
    /\ previewWidth \notin {DefaultPreviewWidth, MinPreviewWidth, MaxPreviewWidth}

\* A drag has moved the divider and has been released.
C12_Witness ==
    /\ listeners = <<>>
    /\ previewWidth # DefaultPreviewWidth
    /\ activeTab = 2

----------------------------------------------------------------------------
(* The API service's credential and its response interceptor *)

Tokens   == {"t1", "t2"}
\* HTTP statuses of a response; 0 stands for a request that fails with no
\* response at all (error.response is undefined).
Statuses == {0, 200, 401, 403, 500}
ProtectedPaths == {"/dashboard", "/generate"}
\* the requests a page makes
KindsAt(path) ==
    IF path = "/dashboard" THEN {"user", "repos"}
    ELSE IF path = "/generate" THEN {"user", "generate", "commit"}
    ELSE {}

\* !!x of a nullable string
Truthy(x) == x # Null /\ x[1] # ""

\* getToken(): this.token || localStorage.getItem('github_token')
getToken(mem, stored) == IF Truthy(mem) THEN mem ELSE stored

\* isAuthenticated(): !!this.getToken()
IsAuthenticated(mem, stored) == Truthy(getToken(mem, stored))
isAuthenticated == IsAuthenticated(token, storedToken)

\* setToken(token)
setToken(t) == token' = Some(t) /\ storedToken' = Some(t)

\* A mutant of clearToken: the entry in localStorage is left behind.
clearTokenMemoryOnly == token' = Null /\ UNCHANGED storedToken

\* clearToken()
clearToken == token' = Null /\ storedToken' = Null

\* The Error an endpoint's catch block throws
ThrownBy(kind) ==
    CASE kind = "login"    -> MsgLogin
      [] kind = "user"     -> MsgUser
      [] kind = "repos"    -> MsgRepos
      [] kind = "generate" -> MsgGenerate
      [] kind = "commit"   -> MsgCommit

\* A mutant of Rethrown: the catch block swallows the failure.
RethrownNever(kind, status) == Null

\* try { await axios... } catch (error) { console.error; throw new Error(...) }
Rethrown(kind, status) == IF status = 200 THEN Null ELSE Some(ThrownBy(kind))

\* The response interceptor's test: error.response?.status === 401
IsUnauthorized(status) == status = Unauthorized

AuthFrame ==
    /\ UNCHANGED <<pageVars, editorVars, layoutVars, copyVars, restVars>>
    /\ Render

\* A page calls one of the service's endpoints.
IssueRequest ==
    \E kind \in KindsAt(location) \ apiReqs :
        /\ isAuthenticated
        /\ apiReqs' = apiReqs \cup {kind}
        /\ lastStatus' = Null
        /\ thrown' = Null
        /\ UNCHANGED <<token, storedToken, location, rootAuth>>
        /\ AuthFrame

\* navigate() between the protected pages
Navigate ==
    \E path \in ProtectedPaths \ {location} :
        /\ isAuthenticated /\ location \in ProtectedPaths
        /\ location' = path
        /\ lastStatus' = Null
        /\ thrown' = Null
        /\ UNCHANGED <<token, storedToken, apiReqs, rootAuth>>
        /\ AuthFrame

\* handleLogout: apiService.clearToken(); navigate('/login')
handleLogout ==
    /\ location \in ProtectedPaths
    /\ clearToken
    /\ location' = "/login"
    /\ lastStatus' = Null
    /\ thrown' = Null
    /\ UNCHANGED <<apiReqs, rootAuth>>
    /\ AuthFrame

\* The login page sends the browser to GitHub, which returns it to
\* /auth/callback with a code: a new document, whose Login effect calls
\* apiService.login(code).
OAuthReturn ==
    /\ location = "/login" /\ ~isAuthenticated
    /\ location' = "/auth/callback"
    /\ apiReqs' = {"login"}
    /\ token' = storedToken
    /\ rootAuth' = IsAuthenticated(storedToken, storedToken)
    /\ lastStatus' = Null
    /\ thrown' = Null
    /\ UNCHANGED storedToken
    /\ AuthFrame

\* A response arrives.  Fulfilled: login stores the token and the Login page
\* navigates to the dashboard.  Rejected: the interceptor runs, and on 401
\* clears the credential and assigns window.location.href = '/login', which
\* replaces the document (and abandons its other requests).
ApiResponse ==
    \E kind \in apiReqs, status \in Statuses :
        /\ lastStatus' = Some([kind |-> kind, status |-> status])
        /\ thrown' = Rethrown(kind, status)
        /\ IF status = 200
           THEN /\ apiReqs' = apiReqs \ {kind}
                /\ IF kind = "login"
                   THEN /\ \E t \in Tokens : setToken(t)
                        /\ location' = "/dashboard"
                   ELSE UNCHANGED <<token, storedToken, location>>
                /\ UNCHANGED rootAuth
           ELSE IF IsUnauthorized(status)
           THEN /\ clearToken
                /\ location' = "/login"
                /\ apiReqs' = {}
                /\ rootAuth' = FALSE
           ELSE /\ apiReqs' = apiReqs \ {kind}
                /\ UNCHANGED <<token, storedToken, location, rootAuth>>
        /\ AuthFrame

\* new ApiService(): this.token = localStorage.getItem('github_token')
InitAuth ==
    /\ storedToken \in {Null} \cup {Some(t) : t \in Tokens}
    /\ token = storedToken
    /\ location = IF IsAuthenticated(token, storedToken) THEN "/dashboard" ELSE "/login"
    /\ rootAuth = IsAuthenticated(token, storedToken)
    /\ apiReqs = {} /\ lastStatus = Null /\ thrown = Null
    /\ InitPage /\ InitEditor /\ InitLayoutIdle /\ InitCopyIdle /\ InitRestIdle /\ InitRender

NextAuth ==
    \/ IssueRequest
    \/ Navigate
    \/ handleLogout
    \/ OAuthReturn
    \/ ApiResponse

SpecAuth == InitAuth /\ [][NextAuth]_vars

\* C7: after a response rejected with 401 the credential is cleared in memory
\* and in local storage, the browser is at the login page and
\* isAuthenticated() is false; a rejection with any other status leaves the
\* credential as it was.
C7_UnauthorizedClearsCredential ==
    /\ [](lastStatus # Null /\ lastStatus[1].status = Unauthorized =>
            /\ token = Null /\ storedToken = Null
            /\ location = "/login"
            /\ ~isAuthenticated)
    /\ [][(lastStatus' # Null /\ lastStatus'[1].status \notin {200, Unauthorized}) =>
            UNCHANGED <<token, storedToken>>]_vars

\* A profile request made with a credential has been rejected with 401.
C7_Witness ==
    /\ lastStatus = Some([kind |-> "user", status |-> Unauthorized])
    /\ ~isAuthenticated /\ location = "/login" /\ apiReqs = {}

----------------------------------------------------------------------------
(* The route table of App and its guards *)

\* The paths a visit may name: the routes, with "/generate" for a
\* /generate/:repoName path, and a path no route matches.
Paths == {"/", "/login", "/auth/callback", "/dashboard", "/generate", "/nowhere"}

Shows(page)  == [redirect |-> FALSE, page |-> page, to |-> ""]
Redirects(to) == [redirect |-> TRUE, page |-> "none", to |-> to]

\* A mutant of ProtectedRoute: the children are rendered without a credential.
ProtectedRouteOpen(auth, page) == Shows(page)

\* isAuthenticated() ? children : <Navigate to="/login" replace />
ProtectedRoute(auth, page) == IF auth THEN Shows(page) ELSE Redirects("/login")

\* !isAuthenticated() ? children : <Navigate to="/dashboard" replace />
PublicRoute(auth, page) == IF ~auth THEN Shows(page) ELSE Redirects("/dashboard")

\* The element of the route that matches path.  The element of "/" is built
\* when App renders, from isAuthenticated() at that time (root).
RouteElement(path, auth, root) ==
    CASE path \in {"/login", "/auth/callback"} -> PublicRoute(auth, "login")
      [] path = "/dashboard" -> ProtectedRoute(auth, "dashboard")
      [] path = "/generate"  -> ProtectedRoute(auth, "generator")
      [] path = "/" -> (IF root THEN Redirects("/dashboard") ELSE Redirects("/login"))
      [] OTHER -> Redirects("/")

\* Following the <Navigate> elements from path: the page shown, the path it
\* is shown at and the redirects taken; "loop" after more than MaxHops.
RECURSIVE Resolve(_, _, _, _)
Resolve(path, auth, root, hops) ==
    LET e == RouteElement(path, auth, root) IN
    IF ~e.redirect THEN [page |-> e.page, at |-> path, hops |-> hops]
    ELSE IF hops >= MaxHops THEN [page |-> "loop", at |-> path, hops |-> hops]
    ELSE Resolve(e.to, auth, root, hops + 1)

\* The page the router shows in the current state
RenderedPage == Resolve(location, isAuthenticated, rootAuth, 0).page

\* A move to any path inside the running application (a link, the session
\* history): the router follows the redirects.
Visit ==
    \E path \in Paths :
        /\ location' = Resolve(path, isAuthenticated, rootAuth, 0).at
        /\ lastStatus' = Null
        /\ thrown' = Null
        /\ UNCHANGED <<token, storedToken, apiReqs, rootAuth>>
        /\ AuthFrame

\* A path opened as a new document (typed, or reloaded): new ApiService(),
\* App renders its route table, the router follows the redirects.
OpenDocument ==
    \E path \in Paths :
        LET auth == IsAuthenticated(storedToken, storedToken) IN
        /\ token' = storedToken
        /\ rootAuth' = auth
        /\ location' = Resolve(path, auth, auth, 0).at
        /\ apiReqs' = {}
        /\ lastStatus' = Null
        /\ thrown' = Null
        /\ UNCHANGED storedToken
        /\ AuthFrame

NextGuard ==
    \/ Visit
    \/ OpenDocument
    \/ IssueRequest
    \/ handleLogout
    \/ OAuthReturn
    \/ ApiResponse

SpecGuard == InitAuth /\ [][NextGuard]_vars

----------------------------------------------------------------------------
(* The service's credential under calls made in any order *)

\* the values setToken may be given: response.data.access_token
CredTokens == Tokens \cup {""}

\* apiService.setToken(t)
CallSetToken ==
    \E t \in CredTokens :
        /\ setToken(t)
        /\ lastStatus' = Null
        /\ thrown' = Null
        /\ UNCHANGED <<location, apiReqs, rootAuth>>
        /\ AuthFrame

\* apiService.clearToken()
CallClearToken ==
    /\ clearToken
    /\ lastStatus' = Null
    /\ thrown' = Null
    /\ UNCHANGED <<location, apiReqs, rootAuth>>
    /\ AuthFrame

\* apiService.login(code), up to its await: the service itself does not ask
\* whether a credential is stored.
CallLogin ==
    /\ "login" \notin apiReqs
    /\ apiReqs' = apiReqs \cup {"login"}
    /\ lastStatus' = Null
    /\ thrown' = Null
    /\ UNCHANGED <<token, storedToken, location, rootAuth>>
    /\ AuthFrame

NextCredential ==
    \/ CallSetToken
    \/ CallClearToken
    \/ CallLogin
    \/ IssueRequest
    \/ ApiResponse

SpecCredential == InitAuth /\ [][NextCredential]_vars

----------------------------------------------------------------------------
(* The route parameter that names the repository *)

\* The characters of a name that matter to the encoding: a letter and "-".
NameChars == {"a", "-"}
RECURSIVE NamesUpTo(_)
NamesUpTo(n) == IF n = 0 THEN {<<>>}
                ELSE LET S == NamesUpTo(n - 1)
                     IN  S \cup {Append(t, c) : t \in {x \in S : Len(x) = n - 1},
                                                c \in NameChars}
\* owner and repository names: not empty, no "/"
Names == NamesUpTo(MaxNameLen) \ {<<>>}

\* pat occurs in s at index i
OccursAt(s, pat, i) ==
    /\ i >= 1 /\ i + Len(pat) - 1 <= Len(s)
    /\ SubSeq(s, i, i + Len(pat) - 1) = pat

\* A mutant of indexOf: the last occurrence.
lastIndexOf(s, pat) ==
    LET at == {i \in 1..Len(s) : OccursAt(s, pat, i)}
    IN  IF at = {} THEN 0 ELSE CHOOSE i \in at : \A j \in at : j <= i

\* the index of the first occurrence of pat in s, 0 when there is none
indexOf(s, pat) ==
    LET at == {i \in 1..Len(s) : OccursAt(s, pat, i)}
    IN  IF at = {} THEN 0 ELSE CHOOSE i \in at : \A j \in at : i <= j

\* String.prototype.replace(pat, by) with a string pattern: the first
\* occurrence only
replace(s, pat, by) ==
    LET i == indexOf(s, pat)
    IN  IF i = 0 THEN s
        ELSE SubSeq(s, 1, i - 1) \o by \o SubSeq(s, i + Len(pat), Len(s))

\* String.prototype.split(sep) for a separator of one character
RECURSIVE split(_, _)
split(s, sep) ==
    LET i == indexOf(s, sep)
    IN  IF i = 0 THEN <<s>>
        ELSE <<SubSeq(s, 1, i - 1)>> \o split(SubSeq(s, i + 1, Len(s)), sep)

\* parts[1] of JavaScript: the second part, undefined (null) without one
Second(parts) == IF Len(parts) >= 2 THEN Some(parts[2]) ELSE Null

NameFrame ==
    /\ UNCHANGED <<pageVars, editorVars, layoutVars, authVars, copyVars, viewVars,
                   fileVars, wakeVars, commitVars, localVars, propVars, routeVars>>
    /\ Render

\* Dashboard.handleGenerateReadme(repo):
\* navigate(`/generate/${repo.full_name.replace('/', '--')}`)
handleGenerateReadme ==
    /\ segment = Null
    /\ segment' = Some(replace(full_name, <<"/">>, <<"-", "-">>))
    /\ UNCHANGED <<full_name, fullName, repoDisplayName>>
    /\ NameFrame

\* loadInitialData: const fullName = repoName!.replace('--', '/');
\*                   const repoDisplayName = fullName.split('/')[1];
DecodeRoute ==
    /\ segment # Null /\ fullName = Null
    /\ LET decoded == replace(segment[1], <<"-", "-">>, <<"/">>) IN
        /\ fullName' = Some(decoded)
        /\ repoDisplayName' = Second(split(decoded, "/"))
    /\ UNCHANGED <<full_name, segment>>
    /\ NameFrame

\* back to the dashboard
handleBackToDashboard ==
    /\ fullName # Null
    /\ segment' = Null /\ fullName' = Null /\ repoDisplayName' = Null
    /\ UNCHANGED full_name
    /\ NameFrame

\* The dashboard lists a repository of any owner and any name.
InitName ==
    /\ InitPage /\ InitEditor /\ InitLayoutIdle /\ InitAuthIdle /\ InitCopyIdle
    /\ InitViewIdle /\ InitFileIdle /\ InitWakeIdle
    /\ InitCommitIdle /\ InitLocalIdle /\ isEditable = TRUE /\ InitRouteIdle
    /\ \E owner \in Names, repo \in Names : full_name = owner \o <<"/">> \o repo
    /\ segment = Null /\ fullName = Null /\ repoDisplayName = Null
    /\ InitRender

NextName ==
    \/ handleGenerateReadme
    \/ DecodeRoute
    \/ handleBackToDashboard

SpecName == InitName /\ [][NextName]_vars

----------------------------------------------------------------------------
(* Copy to clipboard from the page *)

\* How a copy can go: navigator.clipboard.writeText resolves; or it rejects
\* and document.execCommand('copy') returns true, returns false, or throws.
CopyOutcomes == {"native", "copied", "refused", "throws"}

\* The try block of copyToClipboard resolved without entering the catch.
NativeWriteOk(outcome) == outcome = "native"

\* The clipboard after copyToClipboard(text) went as `outcome`.
ClipboardAfter(old, text, outcome) ==
    IF outcome \in {"native", "copied"} THEN Some(text) ELSE old

\* copyToClipboard(text) rejects only if its catch block throws; the
\* temporary textarea is then still in the document.
CopyRejects(outcome) == outcome = "throws"

CopyFrame ==
    /\ UNCHANGED <<pageVars, editorVars, layoutVars, authVars, restVars>>
    /\ Render

\* handleCopyToClipboard, up to its await: the native write of the page's
\* current content is started.
handleCopyToClipboard ==
    /\ EditorMounted
    /\ Len(copyOps) < MaxCopies
    /\ copyOps' = Append(copyOps, currentReadmeContent)
    /\ UNCHANGED <<copySuccess, clipboard, tempFields, shownFor>>
    /\ CopyFrame

\* The native write settles, the fallback runs if it was rejected, and
\* handleCopyToClipboard resumes: setCopySuccess(true) unless
\* copyToClipboard rejected.
CopySettles ==
    \E i \in 1..Len(copyOps), outcome \in CopyOutcomes :
        /\ CopyRejects(outcome) => tempFields < MaxCopies
        /\ copyOps' = SubSeq(copyOps, 1, i - 1) \o SubSeq(copyOps, i + 1, Len(copyOps))
        /\ clipboard' = ClipboardAfter(clipboard, copyOps[i], outcome)
        /\ tempFields' = IF CopyRejects(outcome) THEN tempFields + 1 ELSE tempFields
        /\ IF CopyRejects(outcome)
           THEN UNCHANGED <<copySuccess, shownFor>>
           ELSE /\ copySuccess' = TRUE
                /\ shownFor' = IF NativeWriteOk(outcome) THEN "native" ELSE "fallback"
        /\ CopyFrame

\* The snackbar's onClose: setCopySuccess(false)
CloseCopySnackbar ==
    /\ copySuccess
    /\ copySuccess' = FALSE
    /\ shownFor' = "none"
    /\ UNCHANGED <<clipboard, copyOps, tempFields>>
    /\ CopyFrame

InitCopy ==
    /\ \E text \in Generated : Loaded("octocat", text)
    /\ InitLayoutIdle /\ InitAuthIdle /\ InitCopyIdle /\ InitRestIdle /\ InitRender

NextCopy ==
    \/ handleCopyToClipboard
    \/ CopySettles
    \/ CloseCopySnackbar
    \/ handleContentChange

SpecCopy == InitCopy /\ [][NextCopy]_vars

\* C10: the 'copied to clipboard' notification is open only for a copy whose
\* native clipboard write was confirmed; a copy that went through the legacy
\* fallback opens no notification.
C10_NotifiedOnlyOnConfirmedCopy ==
    copySuccess => shownFor = "native"

----------------------------------------------------------------------------
(* Downloads: downloadReadme of the editor and of the API service *)

\* repo_analysis.name of the response; it may be the empty string
RepoNames == {"repo", ""}

\* A mutant of DownloadSteps: the object URL is never revoked.
DownloadStepsNoRevoke ==
    <<"createObjectURL", "appendChild", "click", "removeChild">>

\* The statements of downloadReadme that act on the document and the URL
\* store, in program order (both implementations have the same body).
DownloadSteps ==
    <<"createObjectURL", "appendChild", "click", "removeChild", "revokeObjectURL">>

\* One statement of downloadReadme on the browser state d.
DownloadStep(step, d, file) ==
    LET logged == [d EXCEPT !.log = Append(d.log, step)] IN
    IF step = "createObjectURL"
        THEN [logged EXCEPT !.urls = d.urls \cup {d.made + 1}, !.made = d.made + 1]
    ELSE IF step = "appendChild" THEN [logged EXCEPT !.attached = TRUE]
    ELSE IF step = "click"
        THEN IF d.attached /\ d.made \in d.urls
             THEN [logged EXCEPT !.files = Append(d.files, file)]
             ELSE logged
    ELSE IF step = "removeChild" THEN [logged EXCEPT !.attached = FALSE]
    ELSE [logged EXCEPT !.urls = d.urls \ {d.made}]

RECURSIVE RunDownload(_, _, _)
RunDownload(steps, d, file) ==
    IF steps = <<>> THEN d
    ELSE RunDownload(Tail(steps), DownloadStep(Head(steps), d, file), file)

\* link.download of the editor: `${repoName || 'README'}.md`
EditorFileName(repoName) ==
    (IF repoName # "" THEN repoName ELSE "README") \o ".md"

\* fileName of the pages' handleDownload: `${readmeData.repo_analysis.name}-README.md`
PageFileName(repoName) == repoName \o "-README.md"

\* downloadReadme(content, fileName)
Download(content, fileName, subject, via) ==
    LET file == [name |-> fileName, content |-> content,
                 \* history: what was asked for
                 subject |-> subject, buffer |-> editableContent, via |-> via]
        d == RunDownload(DownloadSteps,
                 [urls |-> objectUrls, made |-> Len(files), attached |-> linkAttached,
                  files |-> files, log |-> <<>>], file)
    IN  /\ Len(files) < MaxFiles
        /\ files' = d.files
        /\ objectUrls' = d.urls
        /\ linkAttached' = d.attached
        /\ domLog' = d.log
        /\ cbCalls' = <<>>
        /\ UNCHANGED <<activeTab, editableContent, caret, timers, applied>>
        /\ UNCHANGED <<pageVars, layoutVars, authVars, copyVars, viewVars, wakeVars, moreVars>>
        /\ Render

\* downloadReadme of the editor's toolbar
downloadReadme ==
    /\ EditorMounted
    /\ Download(editableContent, EditorFileName(readmeData[1]), readmeData[1], "editor")

\* handleDownload of the page: if (!readmeData) return
handleDownload ==
    /\ ~loading /\ readmeData # Null
    /\ Download(currentReadmeContent, PageFileName(readmeData[1]), readmeData[1], "page")

InitFiles ==
    /\ \E name \in RepoNames, text \in Generated : LoadedRepo("octocat", text, name)
    /\ InitLayoutIdle /\ InitAuthIdle /\ InitCopyIdle /\ InitRestIdle /\ InitRender

NextFiles ==
    \/ downloadReadme
    \/ handleDownload
    \/ handleContentChange
    \/ handleTabChange

SpecFiles == InitFiles /\ [][NextFiles]_vars

\* The name the claim gives a download of `subject`
SubjectFileName(subject) == IF subject = "" THEN "README.md" ELSE subject \o ".md"

\* C11: every file downloaded, from the editor's toolbar or from the page's
\* button, is named <subject>.md (README.md without a subject) and holds the
\* buffer's text.
C11_DownloadNamedAfterSubject ==
    \A i \in DOMAIN files :
        /\ files[i].name = SubjectFileName(files[i].subject)
        /\ files[i].content = files[i].buffer

\* C17: a download creates one object URL, then clicks the link, then revokes
\* the URL; afterwards no object URL is live and no link is in the document.
C17_DownloadReleasesItsUrl ==
    [][Len(files') > Len(files) =>
        LET at(step) == {i \in DOMAIN domLog' : domLog'[i] = step} IN
        /\ Cardinality(at("createObjectURL")) = 1
        /\ Cardinality(at("click")) = 1
        /\ Cardinality(at("revokeObjectURL")) = 1
        /\ \A c \in at("createObjectURL"), k \in at("click"), r \in at("revokeObjectURL") :
               c < k /\ k < r
        /\ objectUrls' = {}
        /\ ~linkAttached']_vars

\* Two files have been downloaded, and nothing is left behind.
C17_Witness ==
    /\ Len(files) = MaxFiles
    /\ files[1].via = "editor" /\ files[Len(files)].via = "page"
    /\ objectUrls = {} /\ ~linkAttached /\ Len(domLog) = Len(DownloadSteps)

----------------------------------------------------------------------------
(* The backend wake-up probe (BackendWakeupService.wakeUpBackend) *)

\* one step of the clock, in ms
TickMs == ProbeTimeoutMs \div ProbeTicks

\* A mutant of ReturnedEarly: the early return resolves to false.
ReturnedEarlyFalse ==
    [st |-> "resolved", value |-> FALSE, probed |-> FALSE, how |-> "early",
     wakingAfter |-> isWakingUp]

\* The early return: if (this.isWakingUp || this.isWarmedUp) return this.isWarmedUp
\* (history: probed, the call started a probe; how, what ended its probe;
\* wakingAfter, isWakingUp when the call resolved).
ReturnedEarly ==
    [st |-> "resolved", value |-> isWarmedUp, probed |-> FALSE, how |-> "early",
     wakingAfter |-> isWakingUp]

\* return true / return false after a response, then the finally block
ReturnedAfterResponse(ok) ==
    [st |-> "resolved", value |-> ok, probed |-> TRUE, how |-> "response",
     wakingAfter |-> FALSE]

\* A mutant of ReturnedAfterError: the catch block rethrows.
ReturnedAfterErrorRethrown(how) ==
    [st |-> "rejected", value |-> FALSE, probed |-> TRUE, how |-> how,
     wakingAfter |-> FALSE]

\* catch (error) { return false }, then the finally block
ReturnedAfterError(how) ==
    [st |-> "resolved", value |-> FALSE, probed |-> TRUE, how |-> how,
     wakingAfter |-> FALSE]

Probing ==
    [st |-> "probing", value |-> FALSE, probed |-> TRUE, how |-> "pending",
     wakingAfter |-> TRUE]

\* the calls, with the one that awaits the probe settled as r
SettleProbing(r) ==
    [i \in DOMAIN wakeCalls |-> IF wakeCalls[i].st = "probing" THEN r ELSE wakeCalls[i]]

WakeFrame ==
    /\ UNCHANGED <<pageVars, editorVars, layoutVars, authVars, copyVars, viewVars, fileVars, moreVars>>
    /\ Render

\* wakeUpBackend(), up to its first await
wakeUpBackend ==
    /\ Len(wakeCalls) < MaxWakeCalls
    /\ IF isWakingUp \/ isWarmedUp
       THEN /\ wakeCalls' = Append(wakeCalls, ReturnedEarly)
            /\ UNCHANGED <<isWakingUp, isWarmedUp, elapsed, probe>>
       ELSE /\ isWakingUp' = TRUE
            /\ probe' = "pending"
            /\ elapsed' = 0
            /\ wakeCalls' = Append(wakeCalls, Probing)
            /\ UNCHANGED isWarmedUp
    /\ WakeFrame

\* Time passes while the probe is pending; the abort timer is due at
\* ProbeTimeoutMs.
Tick ==
    /\ probe = "pending" /\ elapsed < ProbeTimeoutMs
    /\ elapsed' = elapsed + TickMs
    /\ UNCHANGED <<isWakingUp, isWarmedUp, wakeCalls, probe>>
    /\ WakeFrame

\* The probe's response arrives: clearTimeout, response.ok decides.
ProbeResponds ==
    \E ok \in BOOLEAN :
        /\ probe = "pending"
        /\ probe' = "none"
        /\ isWarmedUp' = (ok \/ isWarmedUp)
        /\ isWakingUp' = FALSE
        /\ wakeCalls' = SettleProbing(ReturnedAfterResponse(ok))
        /\ UNCHANGED elapsed
        /\ WakeFrame

\* fetch rejects: a network error, or the abort of the timer at its timeout.
ProbeRejected(how) ==
    /\ probe' = "none"
    /\ isWakingUp' = FALSE
    /\ wakeCalls' = SettleProbing(ReturnedAfterError(how))
    /\ UNCHANGED <<isWarmedUp, elapsed>>
    /\ WakeFrame

ProbeFails == probe = "pending" /\ ProbeRejected("error")

\* setTimeout(() => controller.abort(), 30000) fires
ProbeTimesOut ==
    /\ probe = "pending" /\ elapsed >= ProbeTimeoutMs
    /\ ProbeRejected("aborted")

InitWakeup ==
    /\ InitPage /\ InitEditor /\ InitLayoutIdle /\ InitAuthIdle /\ InitCopyIdle
    /\ InitRestIdle /\ InitRender

NextWakeup ==
    \/ wakeUpBackend
    \/ Tick
    \/ ProbeResponds
    \/ ProbeFails
    \/ ProbeTimesOut

\* The clock advances and a due timer fires.
SpecWakeup ==
    InitWakeup /\ [][NextWakeup]_vars /\ WF_vars(Tick) /\ WF_vars(ProbeTimesOut)

----------------------------------------------------------------------------
(* The editor's presentation, and its remount by the ReadmeGenerator page *)

\* <MenuItem value={12}> ... <MenuItem value={18}>
FontSizes == {12, 14, 16, 18}

\* onChange of the font size Select
setFontSize(size) ==
    /\ EditorMounted
    /\ size \in FontSizes \ {fontSize}
    /\ fontSize' = size
    /\ cbCalls' = <<>>
    /\ UNCHANGED <<activeTab, editableContent, caret, timers, applied>>
    /\ UNCHANGED <<theme, viewMode, prevMount>>
    /\ UNCHANGED <<pageVars, layoutVars, authVars, copyVars, fileVars, wakeVars, moreVars>>
    /\ Render

\* onClick of the theme toggle
toggleTheme ==
    /\ EditorMounted
    /\ theme' = IF theme = "light" THEN "dark" ELSE "light"
    /\ cbCalls' = <<>>
    /\ UNCHANGED <<activeTab, editableContent, caret, timers, applied>>
    /\ UNCHANGED <<fontSize, viewMode, prevMount>>
    /\ UNCHANGED <<pageVars, layoutVars, authVars, copyVars, fileVars, wakeVars, moreVars>>
    /\ Render

\* A mutant of MountState: the split position of the previous mount is kept.
MountStateKeepsWidth(readmeContent) ==
    [activeTab |-> 0, editableContent |-> readmeContent,
     previewWidth |-> previewWidth, fontSize |-> DefaultFontSize, theme |-> "light"]

\* The state of a fresh mount: the useState initial values.
MountState(readmeContent) ==
    [activeTab |-> 0, editableContent |-> readmeContent,
     previewWidth |-> DefaultPreviewWidth, fontSize |-> DefaultFontSize,
     theme |-> "light"]

\* what the mounted editor has reached
MountedState ==
    [activeTab |-> activeTab, editableContent |-> editableContent,
     previewWidth |-> previewWidth, fontSize |-> fontSize, theme |-> theme]

\* The mounted editor has left every initial value.
LeftEveryDefault ==
    LET m == MountState(editableContent) IN
    /\ activeTab # m.activeTab /\ previewWidth # m.previewWidth
    /\ fontSize # m.fontSize /\ theme # m.theme

\* onChange of the view mode ToggleButtonGroup (newMode is null for the
\* selected button): the editor is rendered in 'live-preview' only, so it is
\* unmounted, or mounted afresh.  The timers and document listeners of an
\* unmounted editor stay, acting on nothing that is rendered.
handleViewModeChange ==
    \E newMode \in {"traditional", "live-preview"} \ {viewMode} :
        /\ ~loading /\ readmeData # Null
        /\ viewMode' = newMode
        /\ IF newMode = "live-preview"
           THEN LET m == MountState(currentReadmeContent) IN
                /\ activeTab' = m.activeTab
                /\ editableContent' = m.editableContent
                /\ previewWidth' = m.previewWidth
                /\ fontSize' = m.fontSize
                /\ theme' = m.theme
                /\ UNCHANGED <<prevMount, timers, listeners>>
           ELSE /\ prevMount' = Some(LeftEveryDefault)
                /\ timers' = [i \in DOMAIN timers |-> [timers[i] EXCEPT !.detached = TRUE]]
                /\ listeners' = [i \in DOMAIN listeners |-> [listeners[i] EXCEPT !.live = FALSE]]
                /\ UNCHANGED <<activeTab, editableContent, previewWidth, fontSize, theme>>
        /\ caret' = Null
        /\ cbCalls' = <<>>
        /\ UNCHANGED <<applied, lastMoveX>>
        /\ UNCHANGED <<pageVars, authVars, copyVars, fileVars, wakeVars, moreVars>>
        /\ Render

\* The user's inputs in one session with the editor: any font size, the text
\* "a" typed over the buffer, the first template put at the buffer's start,
\* and an ordinary drag: a press on the divider of a panel 480 px wide while
\* no listener is attached, and moves to the panel's left edge and middle.
ViewTexts        == {<<"a">>}
ViewTemplates    == {<<"T">>}
ViewPointerXs    == {0, 240}
ViewOffsetWidths == {480}

SelectFontSize == \E size \in FontSizes : setFontSize(size)

TypeText == \E newContent \in ViewTexts : ContentChangeTo(newContent)

InsertAtStart == \E template \in ViewTemplates : insertTemplateAt(template, 0, 0)

DragPress ==
    \E clientX \in ViewPointerXs, offsetWidth \in ViewOffsetWidths :
        /\ listeners = <<>>
        /\ Press(clientX, offsetWidth)

DragMove == \E clientX \in ViewPointerXs : Move(clientX)

\* The ReadmeGenerator page after a successful load: useState('traditional').
InitView ==
    /\ Loaded("octocat", <<"g">>)
    /\ InitLayoutIdle /\ InitAuthIdle /\ InitCopyIdle
    /\ fontSize = DefaultFontSize /\ theme = "light"
    /\ viewMode = "traditional" /\ prevMount = Null
    /\ InitFileIdle /\ InitWakeIdle /\ InitMoreIdle /\ InitRender

NextView ==
    \/ handleViewModeChange
    \/ handleTabChange
    \/ TypeText
    \/ InsertAtStart
    \/ RestoreCaret
    \/ SelectFontSize
    \/ toggleTheme
    \/ DragPress
    \/ DragMove
    \/ MouseUp

SpecView == InitView /\ [][NextView]_vars

----------------------------------------------------------------------------
(* Commit to the repository (handleCommitToRepo of the page) *)

\* The page below its loading return renders the sidebar and the dialog.
PageShown == ~loading

CommitFrame ==
    /\ cbCalls' = <<>>
    /\ UNCHANGED <<user, readmeData, currentReadmeContent, loading, generating,
                   userReq, genReq, allState, regens, failLog, editedInFlight>>
    /\ UNCHANGED <<activeTab, editableContent, caret, timers, applied>>
    /\ UNCHANGED <<layoutVars, authVars, copyVars, viewVars, fileVars, wakeVars,
                   localVars, propVars, nameVars, routeVars>>
    /\ Render

\* onClick of the sidebar's Commit to Repo button (disabled={committing})
OpenCommitDialog ==
    /\ PageShown /\ readmeData # Null /\ ~committing
    /\ ~showCommitDialog
    /\ showCommitDialog' = TRUE
    /\ UNCHANGED <<committing, commitSuccess, commits, sent, error>>
    /\ CommitFrame

\* Cancel, or onClose of the dialog
CancelCommitDialog ==
    /\ PageShown /\ showCommitDialog
    /\ showCommitDialog' = FALSE
    /\ UNCHANGED <<committing, commitSuccess, commits, sent, error>>
    /\ CommitFrame

\* handleCommitToRepo: one commitReadmeToRepo request for the route's
\* repository with the held document (history: of, the repository of the
\* response held in readmeData)
handleCommitToRepo ==
    /\ readmeData # Null
    /\ Len(sent) < MaxCommits
    /\ committing' = TRUE /\ error' = Null
    /\ commits' = Append(commits, currentReadmeContent)
    /\ sent' = Append(sent, [to |-> routeRepo, of |-> readmeData[1],
                             content |-> currentReadmeContent])
    /\ UNCHANGED <<commitSuccess, showCommitDialog>>
    /\ CommitFrame

\* The dialog's Commit button carries disabled={committing}.
ClickCommit == PageShown /\ showCommitDialog /\ ~committing /\ handleCommitToRepo

CommitFulfilled(i) ==
    /\ commits' = WithoutRequest(commits, i)
    /\ commitSuccess' = TRUE /\ showCommitDialog' = FALSE
    /\ committing' = FALSE
    /\ UNCHANGED error

\* A mutant of CommitRejected: the request is issued again after a failure.
CommitRejectedRetried(i) ==
    /\ commits' = commits
    /\ error' = Some(MsgCommit)
    /\ committing' = FALSE
    /\ UNCHANGED <<commitSuccess, showCommitDialog>>

\* catch { setError(err.message) } finally { setCommitting(false) }
CommitRejected(i) ==
    /\ commits' = WithoutRequest(commits, i)
    /\ error' = Some(MsgCommit)
    /\ committing' = FALSE
    /\ UNCHANGED <<commitSuccess, showCommitDialog>>

\* The response to a commitReadmeToRepo() request
CommitResponse ==
    \E i \in DOMAIN commits :
        /\ CommitFulfilled(i) \/ CommitRejected(i)
        /\ UNCHANGED sent
        /\ CommitFrame

\* onClose of the commit snackbar (autoHideDuration, or the user)
CloseCommitSnackbar ==
    /\ commitSuccess
    /\ commitSuccess' = FALSE
    /\ UNCHANGED <<committing, showCommitDialog, commits, sent, error>>
    /\ CommitFrame

\* The page's three service actions, through its controls.
NextActions ==
    \/ loadInitialData
    \/ UserResponse
    \/ GenerateResponse
    \/ ClickRegenerate
    \/ RegenResponse
    \/ OpenCommitDialog
    \/ CancelCommitDialog
    \/ ClickCommit
    \/ CommitResponse
    \/ CloseCommitSnackbar

SpecActions == Init /\ [][NextActions]_vars

----------------------------------------------------------------------------
(* The editor's local operations: copyToClipboard, insertTemplate without a textarea *)

\* how a local operation ended: what it did, whether it logged to the
\* console, and whether its caller saw an exception or a rejection
Ended(op, how, logged, threw) ==
    [op |-> op, how |-> how, logged |-> logged, threw |-> threw]

LocalFrame ==
    /\ cbCalls' = <<>>
    /\ UNCHANGED <<activeTab, editableContent, caret, timers, applied>>
    /\ UNCHANGED <<pageVars, layoutVars, authVars, viewVars, fileVars, wakeVars,
                   commitVars, propVars, nameVars, routeVars>>
    /\ UNCHANGED <<copySuccess, copyOps, tempFields, shownFor>>
    /\ Render

\* copyToClipboard of the editor, up to its await: the native write of the
\* buffer is started.
copyToClipboard ==
    /\ EditorMounted
    /\ Len(editorCopies) < MaxCopies
    /\ editorCopies' = Append(editorCopies, editableContent)
    /\ UNCHANGED <<lastLocal, clipboard>>
    /\ LocalFrame

\* A mutant of CopyCaught: the rejection reaches the caller.
CopyCaughtRethrown == Ended("copy", "rejected", TRUE, TRUE)

\* catch (error) { console.error('Failed to copy to clipboard:', error) }
CopyCaught == Ended("copy", "rejected", TRUE, FALSE)

\* The editor's native write settles; copyToClipboard resumes and returns.
EditorCopySettles ==
    \E i \in DOMAIN editorCopies, ok \in BOOLEAN :
        /\ editorCopies' = WithoutRequest(editorCopies, i)
        /\ clipboard' = IF ok THEN Some(editorCopies[i]) ELSE clipboard
        /\ lastLocal' = Some(IF ok THEN Ended("copy", "written", FALSE, FALSE)
                             ELSE CopyCaught)
        /\ LocalFrame

\* insertTemplate(template) while textareaRef.current is null (the Preview
\* tab renders no textarea): if (!textareaRef.current) return.
insertTemplateNoTextarea ==
    \E template \in quickTemplates :
        /\ EditorMounted /\ ~SurfaceMounted
        /\ lastLocal' = Some(Ended("insertTemplate", "returned", FALSE, FALSE))
        /\ UNCHANGED <<editorCopies, clipboard>>
        /\ LocalFrame

InitLocal ==
    /\ Loaded("octocat", <<"g">>)
    /\ InitLayoutIdle /\ InitAuthIdle /\ InitCopyIdle /\ InitRestIdle /\ InitRender

NextLocal ==
    \/ copyToClipboard
    \/ EditorCopySettles
    \/ insertTemplateNoTextarea
    \/ TypeText
    \/ handleTabChange
    \/ DragPress
    \/ DragMove
    \/ MouseUp

SpecLocal == InitLocal /\ [][NextLocal]_vars

----------------------------------------------------------------------------
(* The editor with and without isEditable *)

\* The editor mounted on a loaded page by an owner that passes either value
\* of isEditable.
InitReadOnly ==
    /\ Loaded("octocat", <<"g">>)
    /\ InitLayoutIdle /\ InitAuthIdle /\ InitCopyIdle
    /\ InitViewIdle /\ InitFileIdle /\ InitWakeIdle
    /\ InitCommitIdle /\ InitLocalIdle /\ isEditable \in BOOLEAN
    /\ InitNameIdle
    /\ InitRouteIdle
    /\ InitRender

\* A click on a Quick Insert button
ClickTemplate == TemplateBarShown /\ InsertAtStart

NextReadOnly ==
    \/ TypeText
    \/ ClickTemplate
    \/ insertTemplateNoTextarea
    \/ RestoreCaret
    \/ handleTabChange
    \/ toggleTheme
    \/ ClickRegenerate
    \/ RegenResponse

SpecReadOnly == InitReadOnly /\ [][NextReadOnly]_vars

----------------------------------------------------------------------------
(* The generator page under a change of its route parameter *)

\* The repositories a route names, and the README generated for each.
Repos == {RepoName, "other"}
GeneratedFor(r) == IF r = RepoName THEN <<"g">> ELSE <<"g", "h", "g">>

\* The page mounted on the route of RepoName, its first loadInitialData in
\* flight.
InitRoute ==
    /\ InitPage /\ InitEditor /\ InitLayoutIdle /\ InitAuthIdle /\ InitCopyIdle
    /\ InitViewIdle /\ InitFileIdle /\ InitWakeIdle
    /\ InitCommitIdle /\ InitLocalIdle /\ isEditable = TRUE
    /\ InitNameIdle
    /\ routeRepo = RepoName /\ loads = <<RepoName>>
    /\ InitRender

RouteFrame ==
    /\ cbCalls' = <<>>
    /\ UNCHANGED <<generating, userReq, genReq, allState, regens, failLog,
                   editedInFlight>>
    /\ UNCHANGED <<caret, timers, applied>>
    /\ UNCHANGED <<layoutVars, authVars, copyVars, viewVars, fileVars, wakeVars,
                   commitVars, localVars, propVars, nameVars>>
    /\ Render

\* The route parameter changes under the mounted page (a step in the
\* session history between two /generate routes): the effect runs again,
\* useEffect(..., [navigate, repoName]), and nothing ends the run in flight.
RouteChange ==
    \E r \in Repos \ {routeRepo} :
        /\ Len(loads) < MaxLoads
        /\ routeRepo' = r
        /\ loads' = Append(loads, r)
        /\ loading' = TRUE /\ error' = Null
        /\ UNCHANGED <<user, readmeData, currentReadmeContent, activeTab,
                       editableContent>>
        /\ RouteFrame

\* setUser, setReadmeData, setCurrentReadmeContent of a run for repository r;
\* the editor is mounted with, or re-initialised to, the new text.
LoadApplied(r) ==
    /\ user' = Some("octocat") /\ readmeData' = Some(r)
    /\ currentReadmeContent' = GeneratedFor(r)
    /\ editableContent' = GeneratedFor(r)

\* The Promise.all of a run of loadInitialData settles.
LoadSettles ==
    \E i \in DOMAIN loads, ok \in BOOLEAN :
        /\ loads' = WithoutRequest(loads, i)
        /\ loading' = FALSE
        /\ IF ok
           THEN /\ LoadApplied(loads[i])
                /\ UNCHANGED error
           ELSE /\ error' = Some(MsgGenerate)
                /\ UNCHANGED <<user, readmeData, currentReadmeContent,
                               editableContent>>
        /\ activeTab' = IF EditorMounted THEN activeTab ELSE 0
        /\ UNCHANGED routeRepo
        /\ RouteFrame

NextRoute ==
    \/ RouteChange
    \/ LoadSettles
    \/ OpenCommitDialog
    \/ CancelCommitDialog
    \/ ClickCommit
    \/ CommitResponse
    \/ handleTabChange

SpecRoute == InitRoute /\ [][NextRoute]_vars

----------------------------------------------------------------------------
(* Claims about the page and the editor *)

\* B[0:s] + F + B[e:], position by position
ExpectedInsert(B, s, e, F) ==
    [i \in 1..(s + Len(F) + Len(B) - e) |->
        IF i <= s THEN B[i]
        ELSE IF i <= s + Len(F) THEN F[i - s]
        ELSE B[i - Len(F) - s + e]]

InsertReplacesSelection ==
    \A F \in quickTemplates :
    \A s \in 0..Len(editableContent) :
    \A e \in s..Len(editableContent) :
        insertTemplateAt(F, s, e) =>
            /\ editableContent' = ExpectedInsert(editableContent, s, e, F)
            /\ timers'[Len(timers')].start = s
            /\ timers'[Len(timers')].template = F

\* C1 as stated: template insertion sets the buffer to B[0:s] + F + B[e:], and
\* the deferred caret restore then places the caret at s + |F|.
C1_CaretAfterFragment ==
    [][/\ InsertReplacesSelection
       /\ RestoreCaret =>
            caret' = Some(Head(timers).start + Len(Head(timers).template))]_vars

\* C1 amended: template insertion sets the buffer to B[0:s] + F + B[e:]; the
\* deferred caret restore places the caret of the textarea captured at the
\* insertion at min(s + |F|, length of the text it then holds), and leaves the
\* visible caret alone when that textarea has been unmounted by a tab change.
C1_CaretClamped ==
    [][/\ InsertReplacesSelection
       /\ RestoreCaret =>
            LET t == Head(timers) IN
            IF t.detached THEN caret' = caret
            ELSE caret' = Some(Min(t.start + Len(t.template), Len(editableContent)))]_vars

\* The restore has run after an insertion in front of existing text: the caret
\* stands right after the fragment, before the rest of the buffer.
C1_Witness ==
    /\ timers = <<>> /\ caret = Some(1)
    /\ Len(editableContent) = 2 /\ editableContent[1] = "T"
    /\ editableContent[2] \in Chars

\* C2: whenever the externally supplied text (the readmeContent prop, the page's
\* currentReadmeContent) changes, the buffer after the re-initialization effect
\* equals the new external text; local edits are discarded.
C2_ExternalSourceWins ==
    [][currentReadmeContent' # currentReadmeContent =>
           editableContent' = currentReadmeContent']_vars

\* A regeneration response has replaced a buffer edited while the request was
\* in flight.
C2_Witness ==
    /\ applied # Null /\ applied[1].edited
    /\ editableContent = applied[1].text
    /\ currentReadmeContent = applied[1].text

\* C3: every invocation of handleRegenerate adds a request of its own, also
\* while one is in flight, and once all responses have been delivered the
\* buffer is the text of the response delivered last, whichever invocation it
\* answers.
C3_LastResponseWins ==
    /\ [](regens = <<>> /\ applied # Null =>
            /\ editableContent = applied[1].text
            /\ currentReadmeContent = applied[1].text)
    /\ [][handleRegenerate => Len(regens') = Len(regens) + 1]_vars

\* Two requests were in flight and the response delivered last answers the
\* earlier invocation.
C3_Witness ==
    /\ regens = <<>> /\ applied # Null /\ applied[1].overtaken
    /\ editableContent = applied[1].text

\* C4: a typed edit or a template insertion invokes the change callback exactly
\* once, in the step that updates the buffer, with the full new buffer.
C4_EditNotifiesOnce ==
    [][(handleContentChange \/ insertTemplate) =>
           /\ cbCalls' = <<editableContent'>>
           /\ currentReadmeContent' = editableContent']_vars

\* A template insertion has just notified the owner.
C4_Witness ==
    /\ cbCalls = <<editableContent>> /\ timers # <<>>
    /\ \E i \in DOMAIN editableContent : editableContent[i] = "T"

\* C5: exactly one of the three display modes is active, and a mode switch
\* leaves the buffer and the owner's text unchanged and invokes no change
\* callback; the Split and Edit textareas show the same text.
C5_ModeSwitchKeepsBuffer ==
    /\ [](/\ activeTab \in {0, 1, 2}
          /\ EditorText(2, editableContent) = EditorText(0, editableContent))
    /\ [][activeTab' # activeTab =>
            /\ editableContent' = editableContent
            /\ currentReadmeContent' = currentReadmeContent
            /\ cbCalls' = <<>>]_vars

\* The Split View shows a buffer edited in another tab.
C5_Witness ==
    /\ activeTab = 2 /\ timers # <<>> /\ timers[1].detached
    /\ editableContent # <<>>

BothOk       == userReq.st = "ok" /\ genReq.st = "ok"
SomeFailed   == userReq.st = "failed" \/ genReq.st = "failed"
BothComplete == userReq.st \in {"ok", "failed"} /\ genReq.st \in {"ok", "failed"}
IssuedTogether == (userReq.st = "none") <=> (genReq.st = "none")

\* C8 as stated: the two requests of a page load are issued together, and the
\* page leaves its loading state only after both have completed.
C8_LoadingUntilBothComplete ==
    /\ IssuedTogether
    /\ ~loading => BothComplete

\* C8 amended: the two requests are issued together, and the page is in its
\* loading state exactly until both have succeeded or one of them has failed.
C8_LoadingUntilSettled ==
    /\ IssuedTogether
    /\ loading <=> ~(BothOk \/ SomeFailed)

\* The profile fetch has failed and the page is no longer loading, with the
\* generation request still in flight.
C8_Witness ==
    ~loading /\ userReq.st = "failed" /\ genReq.st = "inflight"

\* C9: when a request of the page load fails, the error shown is that of the
\* request that failed first and no result is applied to the page state.
C9_FailedLoadAppliesNothing ==
    allState = "rejected" =>
        /\ failLog # <<>>
        /\ error = Some(MsgOf(failLog[1]))
        /\ user = Null /\ readmeData = Null /\ currentReadmeContent = <<>>
        /\ ~loading

\* Both requests failed, the generation first; the profile fetch's failure
\* came second.
C9_Witness ==
    /\ allState = "rejected" /\ failLog = <<"generate", "user">>
    /\ error = Some(MsgGenerate)

\* C13: in the Preview tab and in the Split View tab the preview pane shows
\* the rendered buffer exactly when the page is not generating, and a progress
\* indicator while it is; a step that only flips the flag leaves the buffer.
C13_PreviewOrProgress ==
    /\ [](EditorMounted /\ activeTab \in {1, 2} =>
            /\ previewPane # Null
            /\ previewPane[1].kind = "rendered" <=> ~generating
            /\ generating => previewPane[1].kind = "progress"
            /\ ~generating => previewPane[1].source = Some(editableContent))
    /\ [][(generating' # generating /\ currentReadmeContent' = currentReadmeContent) =>
            editableContent' = editableContent]_vars

\* A regeneration is in flight while the Preview tab is open on a buffer that
\* is not empty.
C13_Witness ==
    /\ EditorMounted /\ activeTab = 1 /\ generating
    /\ editableContent # <<>>
    /\ previewPane = Some([kind |-> "progress", source |-> Null])

\* The controls that re-issue the generation, the sidebar's Regenerate button
\* and the editor's toolbar button, are rendered only with a generation result.
RegenerateControlShown == ~loading /\ readmeData # Null

\* C14: once a failure has been caught and its message is shown, the page
\* offers a control that re-issues the failed action, after a failed initial
\* load as well as after a failed regeneration.
C14_RetryAfterFailure ==
    (~loading /\ error # Null) => RegenerateControlShown

\* C15: while the editor is mounted, the edit surface's text, the source of
\* the rendered preview and the page's current content (what a commit, copy or
\* download sends) are one value.
C15_OneDocumentValue ==
    EditorMounted =>
        /\ editableContent = currentReadmeContent
        /\ EditorText(activeTab, editableContent) \in {Null, Some(currentReadmeContent)}
        /\ (previewPane # Null /\ previewPane[1].kind = "rendered") =>
               previewPane[1].source = Some(currentReadmeContent)

\* A template has been inserted in the Split View: the surface, the preview and
\* the page hold the new text.
C15_Witness ==
    /\ EditorMounted /\ activeTab = 2 /\ ~generating
    /\ cbCalls # <<>> /\ timers # <<>>
    /\ Len(currentReadmeContent) = MaxLen
    /\ previewPane = Some([kind |-> "rendered", source |-> Some(currentReadmeContent)])

\* C16 as stated: every call of wakeUpBackend terminates, the probe being
\* aborted when ProbeTimeoutMs have passed; it resolves, never rejects, to true
\* only if the probe was answered OK; and isWakingUp is false once it has
\* resolved.
C16_WakeCallSettlesIdle ==
    /\ [](\A i \in DOMAIN wakeCalls :
            /\ wakeCalls[i].st # "rejected"
            /\ wakeCalls[i].st = "probing" => probe = "pending"
            /\ wakeCalls[i].st = "resolved" =>
                   /\ wakeCalls[i].value => isWarmedUp
                   /\ ~wakeCalls[i].wakingAfter)
    /\ [](probe = "pending" => elapsed <= ProbeTimeoutMs)
    /\ (probe = "pending") ~> (probe = "none")

\* C16, amended: as above, but isWakingUp is false once a call that started a
\* probe has resolved; a call made while a probe is in flight resolves at once
\* (to false) while isWakingUp is still true.
C16_WakeCallSettles ==
    /\ [](\A i \in DOMAIN wakeCalls :
            /\ wakeCalls[i].st # "rejected"
            /\ wakeCalls[i].st = "probing" => probe = "pending"
            /\ wakeCalls[i].st = "resolved" =>
                   /\ wakeCalls[i].value => isWarmedUp
                   /\ wakeCalls[i].probed => ~wakeCalls[i].wakingAfter
                   /\ wakeCalls[i].wakingAfter => ~wakeCalls[i].value)
    /\ [](probe = "pending" => (elapsed <= ProbeTimeoutMs /\ isWakingUp))
    /\ [](probe = "none" => ~isWakingUp)
    /\ (probe = "pending") ~> (probe = "none")

\* A probe was aborted at its timeout, and a call made during it had resolved
\* to false at once.
C16_Witness ==
    /\ Len(wakeCalls) >= 2
    /\ wakeCalls[1] = ReturnedAfterError("aborted")
    /\ wakeCalls[2].st = "resolved" /\ ~wakeCalls[2].probed /\ wakeCalls[2].wakingAfter
    /\ elapsed = ProbeTimeoutMs /\ probe = "none" /\ ~isWakingUp

----------------------------------------------------------------------------
(* The split position and the presentation across edits and remounts *)

\* a drag of the mounted editor is in progress
ActiveDrag == \E i \in DOMAIN listeners : listeners[i].live

\* C19 as stated: the pane percentage changes only through a pointer move
\* during an active drag, so the value reached at release persists until the
\* next drag.
C19_WidthChangesOnlyByDragMoveEver ==
    [][previewWidth' # previewWidth => (DragMove /\ ActiveDrag)]_vars

\* C19, amended: while the editor stays mounted, the pane percentage changes
\* only through a pointer move during an active drag: typed edits, template
\* insertions, mode switches, font-size and theme changes, buffer
\* re-initialization, the release and pointer moves after it all leave it
\* unchanged; the value reached at release persists until the next drag or
\* until the editor is mounted afresh.
C19_WidthChangesOnlyByDragMove ==
    /\ [][(EditorMounted /\ previewWidth' # previewWidth) => (DragMove /\ ActiveDrag)]_vars
    /\ [][(\/ TypeText \/ InsertAtStart \/ RestoreCaret \/ handleTabChange
           \/ SelectFontSize \/ toggleTheme \/ MouseUp
           \/ (DragMove /\ ~ActiveDrag))
              => previewWidth' = previewWidth]_vars
    /\ [][(~EditorMounted /\ previewWidth' # previewWidth) =>
              (handleViewModeChange /\ previewWidth' = DefaultPreviewWidth)]_vars

\* A drag of this mount has moved the divider and been released, the pointer
\* has moved since the press, and the font size, the theme, the buffer and
\* the caret have all been changed in this mount.
C19_Witness ==
    /\ EditorMounted /\ previewWidth # DefaultPreviewWidth
    /\ listeners = <<>> /\ lastMoveX # Null
    /\ fontSize # DefaultFontSize /\ theme = "dark"
    /\ editableContent = <<"T", "a">> /\ caret # Null /\ timers = <<>>

\* C20: each fresh mount of the editor starts with pane percentage 50, font
\* size 14, the light theme and the Edit mode, whatever the previous mount
\* had reached, and with the buffer equal to the text its owner supplies,
\* which holds the edits reported through the change callback.
C20_FreshMountStartsAtDefaults ==
    [][(viewMode = "traditional" /\ viewMode' = "live-preview") =>
          /\ previewWidth' = DefaultPreviewWidth
          /\ fontSize' = DefaultFontSize
          /\ theme' = "light"
          /\ activeTab' = 0
          /\ editableContent' = currentReadmeContent
          /\ currentReadmeContent' = currentReadmeContent]_vars

\* The editor stands freshly mounted on its defaults after a mount that had
\* left every one of them, and its buffer holds a typed edit of that mount.
C20_Witness ==
    /\ viewMode = "live-preview" /\ prevMount = Some(TRUE)
    /\ previewWidth = DefaultPreviewWidth /\ fontSize = DefaultFontSize
    /\ theme = "light" /\ activeTab = 0 /\ caret = Null
    /\ editableContent = <<"a">> /\ currentReadmeContent = <<"a">>

----------------------------------------------------------------------------
(* The page's service actions: requests, error and busy flags *)

\* C21: each service action (initial load, regenerate, commit) issues its
\* request(s) once and none again after a response; a failure sets the error
\* message in the one step in which the action settles, a second failure of
\* the same load sets nothing; the action's busy flag is set by its start and
\* is false once it has settled, on success and on failure.
C21_ActionsIssueOnceAndSettle ==
    /\ [][/\ loadInitialData =>
                (userReq.st = "none" /\ genReq.st = "none" /\ userReq' = InFlight
                 /\ genReq' = InFlight /\ loading')
          /\ (userReq'.st = "inflight" /\ userReq.st # "inflight") => loadInitialData
          /\ (genReq'.st = "inflight" /\ genReq.st # "inflight") => loadInitialData
          /\ ClickRegenerate => (regens' = Append(regens, NewRegen) /\ generating')
          /\ RegenResponse => (Len(regens') = Len(regens) - 1 /\ ~generating')
          /\ ~(ClickRegenerate \/ RegenResponse) => regens' = regens
          /\ ClickCommit => (commits' = Append(commits, currentReadmeContent)
                             /\ Len(sent') = Len(sent) + 1 /\ committing')
          /\ CommitResponse => (Len(commits') = Len(commits) - 1 /\ sent' = sent
                                /\ ~committing')
          /\ ~(ClickCommit \/ CommitResponse) => (commits' = commits /\ sent' = sent)
         ]_vars
    /\ [][/\ (error' # Null /\ error' # error) =>
                \/ (allState = "pending" /\ allState' = "rejected"
                    /\ error' \in {Some(MsgUser), Some(MsgGenerate)})
                \/ (RegenResponse /\ error' = Some(MsgGenerate))
                \/ (CommitResponse /\ error' = Some(MsgCommit))
          /\ ((UserResponse \/ GenerateResponse) /\ allState # "pending") =>
                error' = error
          /\ (allState = "pending" /\ allState' = "rejected") => error' # Null
         ]_vars
    /\ [](/\ loading <=> allState \in {"none", "pending"}
          /\ regens = <<>> => ~generating
          /\ commits = <<>> => ~committing
          /\ Len(regens) <= 1 /\ Len(commits) <= 1)

\* A regeneration has succeeded and a later commit has failed: its message is
\* shown, nothing is in flight and no busy flag is set.
C21_Witness ==
    /\ applied # Null /\ error = Some(MsgCommit) /\ sent # <<>>
    /\ regens = <<>> /\ commits = <<>> /\ allState = "fulfilled"
    /\ ~loading /\ ~generating /\ ~committing

----------------------------------------------------------------------------
(* The editor's local operations *)

\* C22: no local operation of the editor ends with an error at its caller;
\* a rejected clipboard write is caught and logged and leaves the buffer, the
\* mode, the layout and the clipboard as they were; insertTemplate without a
\* mounted edit surface changes neither the buffer nor the caret timers and
\* calls the change callback not at all.
C22_LocalOperationsNeverThrow ==
    /\ [](lastLocal # Null => ~lastLocal[1].threw)
    /\ [][(EditorCopySettles /\ lastLocal'[1].how = "rejected") =>
              /\ lastLocal'[1].logged
              /\ UNCHANGED <<editableContent, currentReadmeContent, activeTab,
                             previewWidth, listeners, fontSize, theme, clipboard>>
              /\ cbCalls' = <<>>]_vars
    /\ [][insertTemplateNoTextarea =>
              /\ ~SurfaceMounted
              /\ UNCHANGED <<editableContent, currentReadmeContent, timers, caret>>
              /\ cbCalls' = <<>>]_vars

\* A clipboard write of an edited buffer was rejected in the Split View with
\* the divider moved: the clipboard still holds the earlier copy.
C22_Witness ==
    /\ lastLocal = Some(CopyCaught)
    /\ clipboard = Some(<<"g">>) /\ editableContent = <<"a">>
    /\ activeTab = 2 /\ previewWidth # DefaultPreviewWidth

----------------------------------------------------------------------------
(* The editor when editing is disallowed *)

\* C23: with isEditable false no textarea is rendered and the template bar is
\* not offered in any tab, no step invokes the change callback, and the
\* buffer changes only when a regeneration response changes the text
\* supplied by the owner, to that text.
C23_ReadOnlyBuffer ==
    /\ [](~isEditable => (~SurfaceMounted /\ ~TemplateBarShown /\ cbCalls = <<>>))
    /\ [][(~isEditable /\ editableContent' # editableContent) =>
              /\ RegenResponse
              /\ currentReadmeContent' # currentReadmeContent
              /\ editableContent' = currentReadmeContent']_vars
    /\ [][(~isEditable /\ ~RegenResponse) =>
              UNCHANGED <<editableContent, currentReadmeContent>>]_vars

\* The read-only editor shows a regenerated text in its Split View, after a
\* theme change and an insertTemplate call that found no textarea.
C23_Witness ==
    /\ ~isEditable /\ activeTab = 2
    /\ editableContent = <<"g", "h", "g">> /\ applied # Null
    /\ theme = "dark"
    /\ lastLocal = Some(Ended("insertTemplate", "returned", FALSE, FALSE))

----------------------------------------------------------------------------
(* The clipboard utility's fallback *)

\* C24: the fallback of copyToClipboard runs within the step in which the
\* native write is rejected; once that copy has completed, the temporary text
\* field it created is no longer in the document, whatever the legacy copy
\* command did (returned true, returned false, or threw).
C24_FallbackFieldRemoved == tempFields = 0

----------------------------------------------------------------------------
(* Regeneration through the controls *)

\* C25: through the Regenerate controls at most one regeneration request is
\* in flight, and the generating flag is true in exactly the states in which
\* one is.
C25_OneRegenerationInFlight ==
    /\ Len(regens) <= 1
    /\ generating <=> regens # <<>>

\* A second regeneration is in flight after the first one has been answered
\* and shown.
C25_Witness ==
    /\ applied # Null /\ Len(regens) = 1 /\ generating /\ ~RegenerateEnabled

----------------------------------------------------------------------------
(* One wake-up probe at a time *)

\* the calls of wakeUpBackend that await a probe
ProbingCalls == {i \in DOMAIN wakeCalls : wakeCalls[i].st = "probing"}

\* the call wakeUpBackend has just added
NewCall == wakeCalls'[Len(wakeCalls')]

\* C26: at most one probe is in flight; a call made while a probe is in
\* flight issues no request and resolves at once to false; once a probe has
\* responded OK isWarmedUp stays true and every later call resolves at once to
\* true, issuing no request.
C26_OneProbeAndWarmStays ==
    /\ [](/\ Cardinality(ProbingCalls) <= 1
          /\ probe = "pending" <=> ProbingCalls # {}
          /\ isWarmedUp => probe = "none")
    /\ [][(wakeUpBackend /\ probe = "pending") =>
              /\ UNCHANGED <<probe, elapsed, isWakingUp, isWarmedUp>>
              /\ NewCall.st = "resolved" /\ ~NewCall.value /\ ~NewCall.probed]_vars
    /\ [][(wakeUpBackend /\ isWarmedUp) =>
              /\ UNCHANGED <<probe, elapsed, isWakingUp, isWarmedUp>>
              /\ NewCall.st = "resolved" /\ NewCall.value /\ ~NewCall.probed]_vars
    /\ [][isWarmedUp => isWarmedUp']_vars
    /\ [][(~isWarmedUp /\ isWarmedUp') =>
              (probe = "pending" /\ probe' = "none"
               /\ wakeCalls' = SettleProbing(ReturnedAfterResponse(TRUE)))]_vars

\* A probe responded OK; a call made while it was in flight had resolved to
\* false, and a call made after it resolved to true without a probe.
C26_Witness ==
    /\ Len(wakeCalls) = 3 /\ isWarmedUp /\ probe = "none"
    /\ wakeCalls[1] = ReturnedAfterResponse(TRUE)
    /\ wakeCalls[2].how = "early" /\ ~wakeCalls[2].value /\ wakeCalls[2].wakingAfter
    /\ wakeCalls[3].how = "early" /\ wakeCalls[3].value /\ ~wakeCalls[3].wakingAfter

----------------------------------------------------------------------------
(* The document and the route *)

\* C27: once no run of loadInitialData is in flight, the document the page
\* holds is the one generated for the repository the route names, and every
\* commit request carried the document of the repository it was sent to.
C27_DocumentOfCurrentRoute ==
    /\ (loads = <<>> /\ readmeData # Null) =>
           (readmeData = Some(routeRepo) /\ currentReadmeContent = GeneratedFor(routeRepo))
    /\ \A i \in DOMAIN sent : sent[i].of = sent[i].to

----------------------------------------------------------------------------
(* Route guarding *)

ProtectedPages == {"dashboard", "generator"}

\* where the redirects from path end in the current state
Landing(path) == Resolve(path, isAuthenticated, rootAuth, 0)

----------------------------------------------------------------------------
(* The credential *)

\* the step just taken handled the rejection of a login request
LoginFailed == lastStatus # Null /\ lastStatus[1].kind = "login"
               /\ lastStatus[1].status # 200

\* C29 as stated: whatever the calls made, the token in memory and the stored
\* token agree and isAuthenticated() is true exactly when a non-empty token is
\* stored; a login whose request fails leaves the credential as it was and
\* raises an error to its caller.
C29_CredentialChangesOnlyOnSuccess ==
    /\ [](token = storedToken /\ (isAuthenticated <=> Truthy(storedToken)))
    /\ [][LoginFailed' => (/\ UNCHANGED <<token, storedToken>>
                           /\ thrown' = Some(MsgLogin))]_vars

\* C29, amended: as above, but a login whose request is rejected with 401
\* clears the credential, as every response rejected with 401 does; one that
\* fails in any other way leaves it as it was.  Both raise the error.
C29_CredentialChangesOnSuccessOr401 ==
    /\ [](token = storedToken /\ (isAuthenticated <=> Truthy(storedToken)))
    /\ [][LoginFailed' =>
            /\ thrown' = Some(MsgLogin)
            /\ IF IsUnauthorized(lastStatus'[1].status)
               THEN token' = Null /\ storedToken' = Null
               ELSE UNCHANGED <<token, storedToken>>]_vars

\* A login has failed with status 500 while an empty token is stored: the
\* empty token is still there, in memory and in storage, isAuthenticated() is
\* false and the caller has the error.
C29_Witness ==
    /\ lastStatus = Some([kind |-> "login", status |-> 500])
    /\ token = Some("") /\ storedToken = Some("")
    /\ ~isAuthenticated
    /\ thrown = Some(MsgLogin)

----------------------------------------------------------------------------
(* The route parameter round trip *)

\* the owner's and the repository's name in full_name
OwnerOf(full) == SubSeq(full, 1, indexOf(full, <<"/">>) - 1)
RepoOf(full)  == SubSeq(full, indexOf(full, <<"/">>) + 1, Len(full))

\* C30: when the owner's name contains no "--" and does not end with "-", the
\* full name decoded from the route parameter is the full name the dashboard
\* encoded, and the display name is the repository's name, whatever "-" and
\* "--" the repository's name contains.
C30_RouteEncodingRoundTrips ==
    (/\ fullName # Null
     /\ indexOf(OwnerOf(full_name), <<"-", "-">>) = 0
     /\ OwnerOf(full_name)[Len(OwnerOf(full_name))] # "-")
    => /\ fullName = Some(full_name)
       /\ repoDisplayName = Some(RepoOf(full_name))

\* The route of a/--- has been decoded: four "-" in the parameter, the
\* first two of them taken for the "/".
C30_Witness ==
    /\ full_name = <<"a", "/", "-", "-", "-">>
    /\ segment = Some(<<"a", "-", "-", "-", "-", "-">>)
    /\ fullName = Some(full_name)
    /\ repoDisplayName = Some(<<"-", "-", "-">>)
====
